---- MODULE Spec2Model ----
(***************************************************************************)
(* Model of the VibePlayer client (frontend/src/App.jsx) and of the        *)
(* /api/zones endpoint it consumes.                                        *)
(*                                                                         *)
(* The React component is modelled as a state machine.  The committed      *)
(* component state is held in the variables zones, coords, zone,           *)
(* audioPrimed and primingInProgress.  Every handler is one action; the    *)
(* re-render that its setState calls schedule, and the effects that        *)
(* re-render runs, are part of the same action (operator Commit).          *)
(* Closures are explicit: the window gesture listener keeps the            *)
(* primingInProgress and zone values of the render whose effect installed  *)
(* it, the Enable button uses the values of the render that is on screen.  *)
(*                                                                         *)
(* Coordinates lie on one meridian and are measured in metres of arc from  *)
(* a reference point, so that the haversine distance of two coordinates    *)
(* is the absolute difference of their latitudes.                          *)
(***************************************************************************)
EXTENDS Integers, Sequences, FiniteSets, TLC

(* ------------------------------ bounds --------------------------------- *)

\* positions are the multiples of 25 m from 0 to 25 * MaxPos
MaxPos == 4
\* longest zone list explored by the resolver specification
MaxZones == 2
\* unlock attempts (primeAudio runs) that may be pending at once
MaxInFlight == 2
\* automatic play() promises that may be pending at once
MaxAutoPending == 2

(* ------------------------------ values --------------------------------- *)

\* JavaScript null / undefined
Null == [null |-> TRUE]

\* radius_m of a zone record that does not specify it
Unspecified == 0 - 1

\* the radius used when radius_m is falsy
DefaultRadius == 50

Positions == {25 * k : k \in 0..MaxPos}

Coordinates == {[latitude |-> p, longitude |-> 0] : p \in Positions}

\* zone records of zones.json: {id, name, center:{lat,lng}, radius_m, playlist}
ZoneA == [id |-> 1, center |-> [lat |-> 0, lng |-> 0], radius_m |-> Unspecified,
          playlist |-> <<"a.mp3">>]
ZoneB == [id |-> 2, center |-> [lat |-> 50, lng |-> 0], radius_m |-> 25,
          playlist |-> <<"b.mp3", "a.mp3">>]
ZoneC == [id |-> 3, center |-> [lat |-> 100, lng |-> 0], radius_m |-> 50,
          playlist |-> <<>>]
ZoneD == [id |-> 4, center |-> [lat |-> 25, lng |-> 0], radius_m |-> 100,
          playlist |-> <<"b.mp3">>]

ZoneRecords == {ZoneA, ZoneB, ZoneC, ZoneD}

\* the zone lists the backend may serve in the main specification
Directories == {<<ZoneA, ZoneB>>, <<ZoneC, ZoneB>>}

\* every zone list of at most MaxZones records
ZoneLists == UNION {[1..n -> ZoneRecords] : n \in 0..MaxZones}

\* the zones state: a parsed JSON array, or the object of the error body
ZonesArray(items) == [kind |-> "array", items |-> items]
ErrorBody == [kind |-> "object", items |-> <<>>]

(* --------------------------- pure functions ---------------------------- *)

Abs(n) == IF n < 0 THEN 0 - n ELSE n

\* great-circle distance; both points are on the meridian lng = 0
distanceMeters(lat1, lon1, lat2, lon2) == Abs(lat2 - lat1)

\* the radius without the 50 m default
Radius_NoDefault(z) == z.radius_m

\* z.radius_m || 50
Radius(z) == IF z.radius_m = Unspecified \/ z.radius_m = 0
             THEN DefaultRadius ELSE z.radius_m

RECURSIVE findZoneFrom(_, _, _)
findZoneFrom(items, c, i) ==
  IF i > Len(items) THEN Null
  ELSE LET z == items[i]
           d == distanceMeters(c.latitude, c.longitude, z.center.lat, z.center.lng)
       IN IF d <= Radius(z) THEN z ELSE findZoneFrom(items, c, i + 1)

findZone(zs, c) == IF c = Null THEN Null ELSE findZoneFrom(zs, c, 1)

\* z.playlist && z.playlist[0]; "" stands for no track
FirstTrack(z) == IF z = Null THEN ""
                 ELSE IF Len(z.playlist) = 0 THEN "" ELSE z.playlist[1]
(* ------------------------------- state --------------------------------- *)

VARIABLES
  zones,              \* useState([]): the zone directory
  coords,             \* useState(null): the latest position fix
  zone,               \* useState(null): the active zone
  audioPrimed,        \* useState(() => localStorage...): UNLOCKED when TRUE
  primingInProgress,  \* useState(false): UNLOCKING when TRUE
  stored,             \* localStorage item "audioPrimed"
  storageOK,          \* FALSE when every localStorage access throws
  audio,              \* the <audio> element behind audioRef
  listener,           \* the window gesture listener and what its closure captured
  priming,            \* primeAudio runs awaiting their muted / audible play()
  autoPlays,          \* pending play() promises of the zone effect
  fetchState,         \* the GET /api/zones request: pending, ok, httpError, rejected
  geo,                \* the geolocation watch
  crashed,            \* TRUE once a render has thrown and React unmounted the tree
  event,              \* the handler that ran last
  calls               \* what that handler did to the audio element, in order

vars == <<zones, coords, zone, audioPrimed, primingInProgress, stored, storageOK,
          audio, listener, priming, autoPlays, fetchState, geo, crashed, event, calls>>

\* localStorage.getItem returns null for a missing item
NoItem == ""

NoListener == [installed |-> FALSE, primingInProgress |-> FALSE, zone |-> Null]

\* the part of the state that handlers and effects read and write, as one record
Cur == [zones |-> zones, coords |-> coords, zone |-> zone,
        audioPrimed |-> audioPrimed, primingInProgress |-> primingInProgress,
        stored |-> stored, audio |-> audio, listener |-> listener,
        priming |-> priming, autoPlays |-> autoPlays, crashed |-> crashed,
        calls |-> <<>>]

\* the state after a handler: r is the record it produced, e its name
Becomes(r, e) ==
  /\ zones' = r.zones
  /\ coords' = r.coords
  /\ zone' = r.zone
  /\ audioPrimed' = r.audioPrimed
  /\ primingInProgress' = r.primingInProgress
  /\ stored' = r.stored
  /\ audio' = r.audio
  /\ listener' = r.listener
  /\ priming' = r.priming
  /\ autoPlays' = r.autoPlays
  /\ crashed' = r.crashed
  /\ calls' = r.calls
  /\ event' = e
  /\ r.priming.muted + r.priming.audible <= MaxInFlight
  /\ r.autoPlays <= MaxAutoPending

InFlight == priming.muted + priming.audible

\* the three states of the unlock state machine
UNLOCKED == audioPrimed
UNLOCKING == ~audioPrimed /\ primingInProgress
LOCKED == ~audioPrimed /\ ~primingInProgress

\* const showBanner = !audioPrimed
showBanner == ~audioPrimed
(* ------------------------------ effects -------------------------------- *)

\* the zone effect with a stop on exit: without a zone it pauses the element
\* and drops its source
ZoneEffect_StopsOnExit(r) ==
  LET z == findZone(r.zones.items, r.coords)
      track == FirstTrack(z)
      r1 == [r EXCEPT !.zone = z]
      r2 == IF track # ""
            THEN [r1 EXCEPT !.audio.src = track, !.calls = Append(@, "src")]
            ELSE r1
  IN IF z = Null \/ ~r.audio.current
     THEN [r1 EXCEPT !.audio.src = "", !.calls = Append(@, "pause")]
     ELSE IF r.audioPrimed /\ track # ""
     THEN [r2 EXCEPT !.autoPlays = @ + 1, !.calls = Append(@, "play")]
     ELSE r2

\* the zone effect without the audioPrimed test before play()
ZoneEffect_AlwaysPlays(r) ==
  LET z == findZone(r.zones.items, r.coords)
      track == FirstTrack(z)
      r1 == [r EXCEPT !.zone = z]
      r2 == IF track # ""
            THEN [r1 EXCEPT !.audio.src = track, !.calls = Append(@, "src")]
            ELSE r1
  IN IF z = Null \/ ~r.audio.current THEN r1
     ELSE IF track # ""
     THEN [r2 EXCEPT !.autoPlays = @ + 1, !.calls = Append(@, "play")]
     ELSE r2

\* the effect "Update zone and load track": setZone(z), then load z's first
\* track, then play() it if audioPrimed
ZoneEffect(r) ==
  LET z == findZone(r.zones.items, r.coords)
      track == FirstTrack(z)
      r1 == [r EXCEPT !.zone = z]
      r2 == IF track # ""
            THEN [r1 EXCEPT !.audio.src = track, !.calls = Append(@, "src")]
            ELSE r1
  IN IF z = Null \/ ~r.audio.current THEN r1
     ELSE IF r.audioPrimed /\ track # ""
     THEN [r2 EXCEPT !.autoPlays = @ + 1, !.calls = Append(@, "play")]
     ELSE r2

\* the gesture effect with a listener that keeps the handleUserEnable of the
\* first render, whose primingInProgress is false
GestureEffect_FirstRender(r, p, z) ==
  [r EXCEPT !.listener = IF r.audioPrimed THEN NoListener
                         ELSE [installed |-> TRUE, primingInProgress |-> FALSE, zone |-> z]]

\* the effect "Global one-time gesture listener": its cleanup removes the
\* listeners of the previous run; it adds new ones unless audioPrimed.  The
\* new onGesture closes over the handleUserEnable of the render with
\* primingInProgress p and zone z
GestureEffect(r, p, z) ==
  [r EXCEPT !.listener = IF r.audioPrimed THEN NoListener
                         ELSE [installed |-> TRUE, primingInProgress |-> p, zone |-> z]]

\* the render with a gesture effect that depends on [zone] only
Commit_GestureOnZoneOnly(old, new, fresh) ==
  IF new.zones.kind # "array"
  THEN [new EXCEPT !.crashed = TRUE, !.listener = NoListener]
  ELSE LET primedChanged == new.audioPrimed # old.audioPrimed
           r1 == IF fresh \/ primedChanged THEN ZoneEffect(new) ELSE new
       IN IF r1.zone # new.zone
          THEN GestureEffect(r1, new.primingInProgress, r1.zone)
          ELSE r1

\* the render with a zone effect that depends on [audioPrimed] only
Commit_NoInputDeps(old, new, fresh) ==
  IF new.zones.kind # "array"
  THEN [new EXCEPT !.crashed = TRUE, !.listener = NoListener]
  ELSE LET primedChanged == new.audioPrimed # old.audioPrimed
           r1 == IF primedChanged THEN ZoneEffect(new) ELSE new
           r2 == IF primedChanged
                 THEN GestureEffect(r1, new.primingInProgress, new.zone)
                 ELSE r1
       IN IF r1.zone # new.zone
          THEN GestureEffect(r2, new.primingInProgress, r1.zone)
          ELSE r2

\* the render of state new after the committed state old, and the effects
\* whose dependencies changed; fresh is TRUE when coords or zones was set to
\* a new object.  The render throws on zones.map when zones is not an array;
\* React then unmounts the tree and the effect cleanups run.
Commit(old, new, fresh) ==
  IF new.zones.kind # "array"
  THEN [new EXCEPT !.crashed = TRUE, !.listener = NoListener]
  ELSE LET primedChanged == new.audioPrimed # old.audioPrimed
           r1 == IF fresh \/ primedChanged THEN ZoneEffect(new) ELSE new
           r2 == IF primedChanged
                 THEN GestureEffect(r1, new.primingInProgress, new.zone)
                 ELSE r1
       IN \* setZone(z) with a different z renders again: only the gesture
          \* effect depends on zone
          IF r1.zone # new.zone
          THEN GestureEffect(r2, new.primingInProgress, r1.zone)
          ELSE r2

(* ------------------------------ handlers ------------------------------- *)

\* primeAudio up to its first await: load the track, mute, play()
primeAudioStart(r, z) ==
  LET first == FirstTrack(z)
      track == IF first # "" THEN first ELSE r.audio.src
      r1 == IF track # ""
            THEN [r EXCEPT !.audio.src = track, !.calls = Append(@, "prime.src")]
            ELSE r
  IN [r1 EXCEPT !.audio.muted = TRUE,
                !.priming.muted = @ + 1,
                !.calls = Append(@, "prime.play.muted")]

\* handleUserEnable that does not write the flag on success
handleUserEnableEnd_NoPersist(r, ok) ==
  [r EXCEPT !.primingInProgress = FALSE, !.audioPrimed = ok]

\* handleUserEnable that ignores the result of primeAudio
handleUserEnableEnd_IgnoresResult(r, ok) ==
  [r EXCEPT !.primingInProgress = FALSE,
            !.stored = IF storageOK THEN "1" ELSE @,
            !.audioPrimed = TRUE]

\* handleUserEnable that resets primingInProgress only on success
handleUserEnableEnd_StaysInProgress(r, ok) ==
  IF ok
  THEN [r EXCEPT !.primingInProgress = FALSE,
                 !.stored = IF storageOK THEN "1" ELSE @,
                 !.audioPrimed = TRUE]
  ELSE [r EXCEPT !.audioPrimed = FALSE]

\* handleUserEnable after "await primeAudio()"
handleUserEnableEnd(r, ok) ==
  IF ok
  THEN [r EXCEPT !.primingInProgress = FALSE,
                 !.stored = IF storageOK THEN "1" ELSE @,
                 !.audioPrimed = TRUE]
  ELSE [r EXCEPT !.primingInProgress = FALSE,
                 !.audioPrimed = FALSE]

\* handleUserEnable of the render with primingInProgress p and zone z, up to
\* its first suspension; without an audio element primeAudio returns false
\* at once
handleUserEnable(r, p, z) ==
  IF p THEN r
  ELSE LET r1 == [r EXCEPT !.primingInProgress = TRUE]
       IN IF ~r.audio.current THEN handleUserEnableEnd(r1, FALSE)
          ELSE primeAudioStart(r1, z)

\* onGesture: remove the listeners, then call the captured handleUserEnable
onGesture(r) ==
  handleUserEnable([r EXCEPT !.listener = NoListener],
                   r.listener.primingInProgress, r.listener.zone)
(* ------------------------------- actions ------------------------------- *)

\* the first render with an initializer whose catch does not decide the
\* value: audioPrimed follows the stored item even when reading it throws
Init_IgnoresThrow ==
  /\ zones = ZonesArray(<<>>)
  /\ coords = Null
  /\ zone = Null
  /\ storageOK \in BOOLEAN
  /\ stored \in {"1", NoItem}
  /\ audioPrimed = (stored = "1")
  /\ primingInProgress = FALSE
  /\ audio = [current |-> TRUE, src |-> "", muted |-> FALSE]
  /\ listener = IF audioPrimed THEN NoListener
                ELSE [installed |-> TRUE, primingInProgress |-> FALSE, zone |-> Null]
  /\ priming = [muted |-> 0, audible |-> 0]
  /\ autoPlays = 0
  /\ fetchState = "pending"
  /\ geo \in {"watching", "unsupported"}
  /\ crashed = FALSE
  /\ event = "mount"
  /\ calls = <<>>

\* the state after the first render and its effects: the fetch is sent,
\* the position watch is started where geolocation exists, the zone effect
\* finds no zone, and the gesture effect adds its listeners unless the
\* stored flag already reads "1".  The item may have been stored by an earlier
\* session also when localStorage throws in this one.
Init ==
  /\ zones = ZonesArray(<<>>)
  /\ coords = Null
  /\ zone = Null
  /\ storageOK \in BOOLEAN
  /\ stored \in {"1", NoItem}
  /\ audioPrimed = (storageOK /\ stored = "1")
  /\ primingInProgress = FALSE
  /\ audio = [current |-> TRUE, src |-> "", muted |-> FALSE]
  /\ listener = IF audioPrimed THEN NoListener
                ELSE [installed |-> TRUE, primingInProgress |-> FALSE, zone |-> Null]
  /\ priming = [muted |-> 0, audible |-> 0]
  /\ autoPlays = 0
  /\ fetchState = "pending"
  /\ geo \in {"watching", "unsupported"}
  /\ crashed = FALSE
  /\ event = "mount"
  /\ calls = <<>>

\* GET /api/zones answers 200 with the zone list: setZones(list)
FetchOk ==
  /\ ~crashed /\ fetchState = "pending"
  /\ \E dir \in Directories :
       Becomes(Commit(Cur, [Cur EXCEPT !.zones = ZonesArray(dir)], TRUE), "fetchOk")
  /\ fetchState' = "ok"
  /\ UNCHANGED <<storageOK, geo>>

\* the backend could not read zones.json: status 500 with the JSON body
\* {error: ...}; fetch resolves, r.json() parses the body, setZones(body)
FetchHttpError ==
  /\ ~crashed /\ fetchState = "pending"
  /\ Becomes(Commit(Cur, [Cur EXCEPT !.zones = ErrorBody], TRUE), "fetchHttpError")
  /\ fetchState' = "httpError"
  /\ UNCHANGED <<storageOK, geo>>

\* the request fails or the body is not JSON: the promise rejects and the
\* catch logs it
FetchRejected ==
  /\ ~crashed /\ fetchState = "pending"
  /\ Becomes(Cur, "fetchRejected")
  /\ fetchState' = "rejected"
  /\ UNCHANGED <<storageOK, geo>>

\* the watch delivers a fix: setCoords(p.coords)
GeoFix ==
  /\ ~crashed /\ geo # "unsupported"
  /\ \E c \in Coordinates :
       Becomes(Commit(Cur, [Cur EXCEPT !.coords = c], TRUE), "geoFix")
  /\ UNCHANGED <<storageOK, geo, fetchState>>

\* an error callback that also drops the position: setCoords(null)
GeoError_ClearsPosition ==
  /\ ~crashed /\ geo # "unsupported"
  /\ Becomes(Commit(Cur, [Cur EXCEPT !.coords = Null], TRUE), "geoError")
  /\ geo' = "error"
  /\ UNCHANGED <<storageOK, fetchState>>

\* the watch reports an error: console.error only; the watch stays
\* registered, so fixes may still follow
GeoError ==
  /\ ~crashed /\ geo # "unsupported"
  /\ Becomes(Cur, "geoError")
  /\ geo' = "error"
  /\ UNCHANGED <<storageOK, fetchState>>

\* a click, touchstart or keydown that reaches the window listener and does
\* not activate the Enable button
Gesture ==
  /\ ~crashed /\ listener.installed
  /\ Becomes(Commit(Cur, onGesture(Cur), FALSE), "gesture")
  /\ UNCHANGED <<storageOK, geo, fetchState>>

\* a click on the Enable button, which is rendered while showBanner and
\* enabled while ~primingInProgress.  The capturing window listener runs
\* first when it is installed, then React's onClick.  React may or may not
\* have rendered the listener's setPrimingInProgress(true) in between: if it
\* has, the button is disabled and gets no onClick; if it has not (sameRender),
\* onClick is the handleUserEnable of the render the listener ran in.
ClickEnable ==
  /\ ~crashed /\ showBanner /\ ~primingInProgress
  /\ \E sameRender \in BOOLEAN :
       LET r1 == IF listener.installed THEN onGesture(Cur) ELSE Cur
           disabled == r1.primingInProgress /\ ~sameRender
           r2 == IF disabled THEN r1
                 ELSE handleUserEnable(r1, primingInProgress, zone)
       IN /\ sameRender => r1.primingInProgress
          /\ Becomes(Commit(Cur, r2, FALSE), "click")
  /\ UNCHANGED <<storageOK, geo, fetchState>>

\* the muted play() of a primeAudio run resolves: pause, rewind, unmute and
\* play() audibly
MutedPlayResolved ==
  /\ ~crashed /\ priming.muted > 0
  /\ Becomes([Cur EXCEPT !.audio.muted = FALSE,
                         !.priming = [muted |-> @.muted - 1, audible |-> @.audible + 1],
                         !.calls = <<"prime.pause", "prime.play.audible">>],
             "mutedPlayResolved")
  /\ UNCHANGED <<storageOK, geo, fetchState>>

\* the outer catch without "a.muted = false"
MutedPlayRejected_StaysMuted ==
  /\ ~crashed /\ priming.muted > 0
  /\ LET r1 == [Cur EXCEPT !.priming.muted = @ - 1]
     IN Becomes(Commit(Cur, handleUserEnableEnd(r1, FALSE), FALSE), "mutedPlayRejected")
  /\ UNCHANGED <<storageOK, geo, fetchState>>

\* the muted play() rejects: unmute, return false; handleUserEnable resumes
MutedPlayRejected ==
  /\ ~crashed /\ priming.muted > 0
  /\ LET r1 == [Cur EXCEPT !.audio.muted = FALSE, !.priming.muted = @ - 1]
     IN Becomes(Commit(Cur, handleUserEnableEnd(r1, FALSE), FALSE), "mutedPlayRejected")
  /\ UNCHANGED <<storageOK, geo, fetchState>>

\* the audible play() resolves: return true; handleUserEnable resumes
AudiblePlayResolved ==
  /\ ~crashed /\ priming.audible > 0
  /\ LET r1 == [Cur EXCEPT !.priming.audible = @ - 1]
     IN Becomes(Commit(Cur, handleUserEnableEnd(r1, TRUE), FALSE), "audiblePlayResolved")
  /\ UNCHANGED <<storageOK, geo, fetchState>>

\* primeAudio without the inner try: a rejected audible play() reaches the
\* outer catch and returns false
AudiblePlayRejected_RollsBack ==
  /\ ~crashed /\ priming.audible > 0
  /\ LET r1 == [Cur EXCEPT !.priming.audible = @ - 1]
     IN Becomes(Commit(Cur, handleUserEnableEnd(r1, FALSE), FALSE), "audiblePlayRejected")
  /\ UNCHANGED <<storageOK, geo, fetchState>>

\* the audible play() rejects: the inner catch logs it, return true
AudiblePlayRejected ==
  /\ ~crashed /\ priming.audible > 0
  /\ LET r1 == [Cur EXCEPT !.priming.audible = @ - 1]
     IN Becomes(Commit(Cur, handleUserEnableEnd(r1, TRUE), FALSE), "audiblePlayRejected")
  /\ UNCHANGED <<storageOK, geo, fetchState>>

\* a play() of the zone effect resolves: nothing to do
AutoPlayResolved ==
  /\ ~crashed /\ autoPlays > 0
  /\ Becomes([Cur EXCEPT !.autoPlays = @ - 1], "autoPlayResolved")
  /\ UNCHANGED <<storageOK, geo, fetchState>>

\* the catch without the try around removeItem: a throwing removeItem skips
\* setAudioPrimed(false)
autoPlayCatch_ThrowAborts(r) ==
  IF storageOK THEN [r EXCEPT !.stored = NoItem, !.audioPrimed = FALSE] ELSE r

\* the catch without removeItem
autoPlayCatch_KeepsFlag(r) == [r EXCEPT !.audioPrimed = FALSE]

\* the catch of the zone effect's play(): removeItem, setAudioPrimed(false)
autoPlayCatch(r) ==
  [r EXCEPT !.stored = IF storageOK THEN NoItem ELSE @,
            !.audioPrimed = FALSE]

\* a play() of the zone effect rejects
AutoPlayRejected ==
  /\ ~crashed /\ autoPlays > 0
  /\ LET r1 == [Cur EXCEPT !.autoPlays = @ - 1]
     IN Becomes(Commit(Cur, autoPlayCatch(r1), FALSE), "autoPlayRejected")
  /\ UNCHANGED <<storageOK, geo, fetchState>>

Next ==
  \/ FetchOk \/ FetchHttpError \/ FetchRejected
  \/ GeoFix \/ GeoError
  \/ Gesture \/ ClickEnable
  \/ MutedPlayResolved \/ MutedPlayRejected
  \/ AudiblePlayResolved \/ AudiblePlayRejected
  \/ AutoPlayResolved \/ AutoPlayRejected

Spec == Init /\ [][Next]_vars
(* ----------------------- resolver specification ------------------------ *)

\* findZone on every zone list of at most MaxZones records and every
\* coordinate, present or absent
InitResolve ==
  /\ zones \in {ZonesArray(l) : l \in ZoneLists}
  /\ coords \in Coordinates \cup {Null}
  /\ zone = Null
  /\ storageOK = TRUE
  /\ stored = NoItem
  /\ audioPrimed = FALSE
  /\ primingInProgress = FALSE
  /\ audio = [current |-> TRUE, src |-> "", muted |-> FALSE]
  /\ listener = NoListener
  /\ priming = [muted |-> 0, audible |-> 0]
  /\ autoPlays = 0
  /\ fetchState = "ok"
  /\ geo = "watching"
  /\ crashed = FALSE
  /\ event = "mount"
  /\ calls = <<>>

\* const z = findZone(zones, coords); setZone(z)
Resolve ==
  /\ zone' = findZone(zones.items, coords)
  /\ event' = "resolve"
  /\ UNCHANGED <<zones, coords, audioPrimed, primingInProgress, stored, storageOK,
                 audio, listener, priming, autoPlays, fetchState, geo, crashed, calls>>

\* the next fix of the watch
Move ==
  /\ coords' \in Coordinates
  /\ event' = "move"
  /\ UNCHANGED <<zones, zone, audioPrimed, primingInProgress, stored, storageOK,
                 audio, listener, priming, autoPlays, fetchState, geo, crashed, calls>>

NextResolve == Resolve \/ Move

SpecResolve == InitResolve /\ [][NextResolve]_vars

(* ------------------------------- claims -------------------------------- *)

\* C1: at most one unlock attempt (primeAudio run) is in flight at any time,
\* whatever gestures and Enable clicks arrive.
C1_AtMostOneAttempt == InFlight <= 1

\* the zones of a list that contain coordinate c, by position in the list
Containing(zs, c) ==
  {i \in 1..Len(zs) :
     LET r == IF zs[i].radius_m = Unspecified THEN 50 ELSE zs[i].radius_m
     IN  zs[i].center.lat - r <= c.latitude /\ c.latitude <= zs[i].center.lat + r}

\* C2: findZone returns the first zone in list order whose centre is within
\* its radius_m (50 m when unspecified) of the coordinate, and none when no
\* zone is, when the list is empty or when the coordinate is absent.
C2_ZoneResolution ==
  event = "resolve" =>
    IF coords = Null \/ Containing(zones.items, coords) = {}
    THEN zone = Null
    ELSE /\ zone # Null
         /\ \E i \in Containing(zones.items, coords) :
              /\ zone = zones.items[i]
              /\ \A j \in Containing(zones.items, coords) : i <= j

\* a later zone of the list is resolved because the first does not contain
\* the coordinate
C2_Witness ==
  /\ event = "resolve"
  /\ coords # Null
  /\ Len(zones.items) = 2
  /\ Containing(zones.items, coords) = {2}
  /\ zone = zones.items[2]

\* C3: when GET /api/zones fails, answers with a non-success status and a
\* JSON error body, or answers with an unparseable body, the client does not
\* crash, has zero zones, and its active zone is none from then on.
C3_LoadFailure ==
  fetchState \in {"httpError", "rejected"} =>
    /\ ~crashed
    /\ zones = ZonesArray(<<>>)
    /\ zone = Null

\* number of times call c occurs in the sequence cs
Count(cs, c) == Cardinality({i \in 1..Len(cs) : cs[i] = c})

\* C4: a step that changes the active zone to a different zone (one that has
\* a track) while UNLOCKED makes exactly one automatic playback attempt, and
\* a step that leaves the active zone unchanged makes none and does not
\* reload the source.
C4_PlaybackCount ==
  [][/\ (zone' # zone /\ FirstTrack(zone') # "" /\ audioPrimed /\ audioPrimed')
          => Count(calls', "play") = 1
     /\ (zone' = zone)
          => (Count(calls', "play") = 0 /\ Count(calls', "src") = 0)]_vars

\* C5: when an automatic play() fails, the stored flag is cleared (where
\* storage works) and the state is LOCKED: audioPrimed false, banner shown.
C5_Revocation ==
  event = "autoPlayRejected" =>
    /\ storageOK => stored = NoItem
    /\ ~audioPrimed
    /\ showBanner

\* an automatic play failed in a session that had the flag stored
C5_Witness ==
  /\ event = "autoPlayRejected"
  /\ storageOK
  /\ stored = NoItem
  /\ listener.installed

\* C6: when an unlock attempt whose muted play succeeded ends, it has
\* reported success: the stored flag is "1" (where storage works) and the
\* state is UNLOCKED.
C6_SuccessfulUnlock ==
  [][priming'.audible < priming.audible =>
       /\ storageOK => stored' = "1"
       /\ audioPrimed'
       /\ ~primingInProgress']_vars

\* an attempt has ended after its audible play resolved, and wrote the flag
C6_Witness ==
  /\ event = "audiblePlayResolved"
  /\ stored = "1"
  /\ UNLOCKED
  /\ InFlight = 0

\* C7 as claimed: while UNLOCKING no gesture invokes the unlock handler.
C7_NoGestureWhileUnlocking ==
  [][primingInProgress => event' # "gesture"]_vars

\* C7 as amended: a gesture that arrives while UNLOCKING may run the
\* re-installed listener, but it starts no unlock attempt and touches
\* neither the audio element nor the unlock state.
C7_GestureStartsNothing ==
  [][(primingInProgress /\ event' = "gesture") =>
       /\ priming' = priming
       /\ calls' = <<>>
       /\ audio' = audio
       /\ primingInProgress' /\ audioPrimed' = audioPrimed]_vars

\* a gesture has run the listener while the only attempt was in flight
C7_Witness ==
  /\ event = "gesture"
  /\ UNLOCKING
  /\ InFlight = 1
  /\ calls = <<>>
  /\ ~listener.installed

\* C8: after an unlock attempt whose muted play failed the state is LOCKED
\* with the flag unset and the gesture listener is installed again, ready to
\* start a new attempt.
C8_RetryAfterFailure ==
  event = "mutedPlayRejected" =>
    /\ LOCKED
    /\ stored = NoItem
    /\ listener.installed
    /\ ~listener.primingInProgress

\* C9: when the muted play fails no play is attempted afterwards, the stored
\* flag is not written and the state after the attempt is LOCKED.
C9_MutedFailureLocks ==
  [][event' = "mutedPlayRejected" =>
       /\ Count(calls', "prime.play.audible") = 0
       /\ Count(calls', "play") = 0
       /\ stored' = stored
       /\ ~audioPrimed' /\ ~primingInProgress'
       /\ ~audio'.muted]_vars

\* a muted play has failed and left the controller locked with no flag
C9_Witness ==
  /\ event = "mutedPlayRejected"
  /\ LOCKED
  /\ stored = NoItem
  /\ InFlight = 0

\* C10: when the muted play succeeded and the audible play fails, the unlock
\* still succeeds: the stored flag is "1" (where storage works) and the
\* state is UNLOCKED.
C10_AudibleFailureKeepsUnlock ==
  event = "audiblePlayRejected" =>
    /\ storageOK => stored = "1"
    /\ UNLOCKED
    /\ ~primingInProgress

\* an audible play has failed and the flag is stored
C10_Witness ==
  /\ event = "audiblePlayRejected"
  /\ stored = "1"
  /\ UNLOCKED

\* C11: when a failed automatic play takes the state from UNLOCKED to LOCKED,
\* the gesture listener is installed again with a handleUserEnable that is
\* not blocked, so the next gesture starts an unlock attempt.
C11_ListenerAfterRevocation ==
  [][(audioPrimed /\ event' = "autoPlayRejected") =>
       /\ ~audioPrimed'
       /\ listener'.installed
       /\ ~listener'.primingInProgress
       /\ listener'.zone = zone']_vars

\* a revocation inside a zone has left the controller LOCKED with a fresh
\* listener for that zone
C11_Witness ==
  /\ event = "autoPlayRejected"
  /\ LOCKED
  /\ zone # Null
  /\ listener = [installed |-> TRUE, primingInProgress |-> FALSE, zone |-> zone]

\* C12: a session starts UNLOCKED exactly when the stored flag is "1" and
\* localStorage can be read, otherwise LOCKED with the gesture listener
\* installed; primingInProgress starts false.
C12_InitialState ==
  event = "mount" =>
    /\ audioPrimed <=> (storageOK /\ stored = "1")
    /\ ~audioPrimed => LOCKED
    /\ ~primingInProgress
    /\ InFlight = 0

\* a session that cannot read the flag an earlier session stored starts LOCKED
C12_Witness ==
  /\ event = "mount"
  /\ stored = "1"
  /\ ~storageOK
  /\ LOCKED

\* C13: when every localStorage access throws, the session starts LOCKED, no
\* handler that uses the storage crashes or changes the stored item, an
\* unlock attempt whose muted play succeeded still ends UNLOCKED, and a failed
\* automatic play still takes the state from UNLOCKED to LOCKED.
C13_StorageUnavailable ==
  /\ ~storageOK => LOCKED
  /\ [][~storageOK =>
          /\ stored' = stored
          /\ event' \in {"audiblePlayResolved", "audiblePlayRejected"}
               => (UNLOCKED' /\ ~crashed')
          /\ (UNLOCKED /\ event' = "autoPlayRejected")
               => (LOCKED' /\ ~crashed')]_vars

\* without storage a session was unlocked by an attempt and locked again by a
\* failed automatic play
C13_Witness ==
  /\ ~storageOK
  /\ event = "autoPlayRejected"
  /\ LOCKED
  /\ listener.installed
  /\ ~crashed

\* C14 as claimed: once the watch has reported an error, or where geolocation
\* is unsupported, the coordinate is absent and the active zone is none.
C14_NoPositionAfterFailure ==
  geo \in {"error", "unsupported"} => (coords = Null /\ zone = Null)

\* C14 as amended: where geolocation is unsupported the coordinate stays
\* absent and the active zone none; an error of the watch leaves the
\* coordinate and the active zone as they were, and a fix that follows an
\* error is applied like any other.
C14_ErrorKeepsLastPosition ==
  [][/\ geo = "unsupported" => (coords' = Null /\ zone' = Null)
     /\ event' = "geoError" => (coords' = coords /\ zone' = zone /\ calls' = <<>>)
     /\ (geo = "error" /\ event' = "geoFix")
          => (coords' \in Coordinates /\ zone' = findZone(zones'.items, coords'))]_vars

\* the watch reported an error while the user was inside a zone
C14_Witness ==
  /\ event = "geoError"
  /\ geo = "error"
  /\ coords # Null
  /\ zone # Null

\* C15: when a position update or a directory load resolves to no active
\* zone, or there is no audio element, the step leaves the element as it is
\* (source included), calls neither play nor pause, starts no automatic play
\* and leaves the unlock state and the stored flag unchanged.
C15_NoActionWithoutZone ==
  [][(event' \in {"geoFix", "fetchOk"} /\ (zone' = Null \/ ~audio.current)) =>
       /\ audio' = audio
       /\ calls' = <<>>
       /\ autoPlays' = autoPlays
       /\ audioPrimed' = audioPrimed
       /\ primingInProgress' = primingInProgress
       /\ stored' = stored]_vars

\* an unlocked user has left every zone: the source of the last zone stays
C15_Witness ==
  /\ event = "geoFix"
  /\ coords # Null
  /\ zone = Null
  /\ UNLOCKED
  /\ audio.src # ""
  /\ calls = <<>>

\* C16: after every position update and directory load the stored active
\* zone is findZone of the latest zone list and the latest coordinate,
\* whatever the order in which the directory and the fixes arrive.
C16_ZoneTracksInputs ==
  zones.kind = "array" => zone = findZone(zones.items, coords)

\* the directory arrived after a fix and the fix now resolves to a zone
C16_Witness ==
  /\ event = "fetchOk"
  /\ coords # Null
  /\ zone # Null
  /\ zone = findZone(zones.items, coords)

\* C17: the zone effect calls play() only in a render that is UNLOCKED; a
\* position update or directory load that finds a zone with a track while
\* LOCKED or UNLOCKING only assigns that track as the source.
C17_NoAutoPlayWhileLocked ==
  [][/\ Count(calls', "play") > 0 => UNLOCKED'
     /\ (~UNLOCKED' /\ event' \in {"geoFix", "fetchOk"} /\ FirstTrack(zone') # "")
          => /\ calls' = <<"src">>
             /\ audio'.src = FirstTrack(zone')
             /\ autoPlays' = autoPlays]_vars

\* a zone was entered while an unlock attempt was in flight: source only
C17_Witness ==
  /\ event = "geoFix"
  /\ UNLOCKING
  /\ InFlight > 0
  /\ zone # Null
  /\ calls = <<"src">>

\* C18: where storage works the stored flag is "1" exactly when the in-memory
\* state is UNLOCKED; in particular the state is never LOCKED with the flag
\* still stored.
C18_FlagAgreesWithState ==
  storageOK => (stored = "1" <=> UNLOCKED)

(* ------------------------------ liveness ------------------------------- *)

\* the states in which the directory <<ZoneA, ZoneB>> has loaded and the user
\* stands still, either without a fix yet or at the centre of ZoneA after
\* the first fix
InitStanding ==
  /\ zones = ZonesArray(<<ZoneA, ZoneB>>)
  /\ coords \in {Null, [latitude |-> 0, longitude |-> 0]}
  /\ zone = findZone(zones.items, coords)
  /\ storageOK \in BOOLEAN
  /\ stored \in {"1", NoItem}
  /\ audioPrimed = (storageOK /\ stored = "1")
  /\ primingInProgress = FALSE
  /\ audio = [current |-> TRUE, src |-> FirstTrack(zone), muted |-> FALSE]
  /\ listener = IF audioPrimed THEN NoListener
                ELSE [installed |-> TRUE, primingInProgress |-> FALSE, zone |-> zone]
  /\ priming = [muted |-> 0, audible |-> 0]
  /\ autoPlays = IF audioPrimed /\ zone # Null THEN 1 ELSE 0
  /\ fetchState = "ok"
  /\ geo = "watching"
  /\ crashed = FALSE
  /\ event = IF coords = Null THEN "fetchOk" ELSE "geoFix"
  /\ calls = IF zone = Null THEN <<>>
             ELSE IF audioPrimed THEN <<"src", "play">> ELSE <<"src">>

\* the user's gestures and the settling of play() promises
NextUnlock ==
  \/ Gesture \/ ClickEnable
  \/ MutedPlayResolved \/ MutedPlayRejected
  \/ AudiblePlayResolved \/ AudiblePlayRejected
  \/ AutoPlayResolved \/ AutoPlayRejected

\* every play() promise settles: resolution and rejection are jointly fair
\* for each kind of pending promise
LiveSpec ==
  /\ InitStanding
  /\ [][NextUnlock]_vars
  /\ WF_vars(MutedPlayResolved \/ MutedPlayRejected)
  /\ WF_vars(AudiblePlayResolved \/ AudiblePlayRejected)
  /\ WF_vars(AutoPlayResolved \/ AutoPlayRejected)

\* C19: when the play() promises settle, primingInProgress is always reset to
\* false again: the controller does not stay in UNLOCKING forever.
C19_UnlockingEnds == primingInProgress ~> ~primingInProgress

\* an attempt has ended and reset primingInProgress
C19_Witness ==
  /\ event \in {"mutedPlayRejected", "audiblePlayResolved", "audiblePlayRejected"}
  /\ ~primingInProgress
  /\ InFlight = 0

====
